---- MODULE Spec2Model ----
(***************************************************************************)
(* A model of src/value.rs of mlua: the dynamically typed Value (raw       *)
(* equality, equals, the display ordering cmp, serialization), the         *)
(* argument decoding hooks of FromLua / FromLuaMulti, and the MultiValue   *)
(* container, which stores its elements back to front in a Vec.            *)
(*                                                                         *)
(* A Value is the pair <<tag, payload>>.  Machine integers and floats are  *)
(* scaled down: the i64 of the source is a signed I64Bits-bit integer and  *)
(* the f64 has a MantBits-bit significand, MantBits < I64Bits as 53 < 64,  *)
(* so that `as Number` rounds the large integers exactly as it does in the *)
(* source.  A finite float is its numerator over Den.                      *)
(***************************************************************************)
EXTENDS Integers, Sequences, FiniteSets, TLC

VARIABLES mv, live, pre, consumed, out, op, arg, ret, visited, stack

vars == <<mv, live, pre, consumed, out, op, arg, ret, visited, stack>>

(* ------------------------------ bounds -------------------------------- *)

\* Longest Vec handed to from_vec / refill, and the capacity push_front stops at.
MaxLen == 3

\* Width of the (scaled) i64.
I64Bits == 4

\* Width of the (scaled) f64 significand.
MantBits == 2

\* Binary digits after the point in the Numbers drawn.
FracBits == 1

\* Most entries a table holds when it is pretty-printed.
MaxEntries == 2

\* Largest argument position handed to from_lua_arg / from_lua_multi_args.
MaxPos == 2

(* ------------------------------ Value --------------------------------- *)

Tag(v) == v[1]

Payload(v) == v[2]

RECURSIVE Pow2(_)
Pow2(n) == IF n = 0 THEN 1 ELSE 2 * Pow2(n - 1)

\* A finite Number is the numerator of a binary fraction over Den.
Den == Pow2(FracBits)

Nil == <<"Nil", 0>>

Boolean(b) == <<"Boolean", b>>

LightUserData(p) == <<"LightUserData", p>>

NULL == LightUserData(0)

Integer(i) == <<"Integer", i>>

Number(k, n) == <<"Number", <<k, n>>>>

NaN == Number("nan", 0)

LuaString(bytes) == <<"String", bytes>>

Table(p) == <<"Table", p>>

Function(p) == <<"Function", p>>

Thread(p) == <<"Thread", p>>

UserData(p) == <<"UserData", p>>

Error(e) == <<"Error", e>>

(* Option, Result and a panic (the thread unwinds). *)
None == <<"None">>

Some(x) == <<"Some", x>>

Ok(x) == <<"Ok", x>>

Err(e) == <<"Err", e>>

Panic(msg) == <<"Panic", msg>>

IsErr(r) == r[1] = "Err"

Unit == "()"

(* --------------------------- MultiValue ------------------------------- *)

\* The Values the container is exercised with.
Elems == {Nil, Integer(1)}

SeqsUpTo(S, n) == UNION {[1..k -> S] : k \in 0..n}

\* A fallible production handed to refill: Ok(value) or Err(error).
Productions == {Ok(v) : v \in Elems} \cup {Err("e1"), Err("e2")}

new == <<>>

\* Vec::reverse: swaps in place from both ends.
RECURSIVE swap_loop(_, _)
swap_loop(v, i) ==
    IF i > Len(v) \div 2 THEN v
    ELSE swap_loop([v EXCEPT ![i] = v[Len(v) - i + 1],
                             ![Len(v) - i + 1] = v[i]], i + 1)

reverse(v) == swap_loop(v, 1)

\* iter::Rev over a slice or Vec iterator: yields from the back.
rev(it) == [k \in 1..Len(it) |-> it[Len(it) - k + 1]]

\* from_vec that forgets to reverse.
from_vec_no_reverse(v) == v

from_vec(v) == reverse(v)

into_vec(s) == reverse(s)

len(s) == Len(s)

is_empty(s) == Len(s) = 0

\* get that reads one slot too low.
get_off_by_one(s, index) ==
    IF index < Len(s) /\ Len(s) - index > 1 THEN Some(s[(Len(s) - index - 1)])
    ELSE None

\* index is 0-based; the Vec is 1-based here.
get(s, index) ==
    IF index < Len(s) THEN Some(s[(Len(s) - index - 1) + 1])
    ELSE None

\* Index<usize>: the element, or a panic.
index_op(s, index) ==
    IF get(s, index) # None THEN Ok(get(s, index)[2])
    ELSE Panic("index out of bounds")

iter(s) == rev(s)

\* IntoIterator for MultiValue and for &MultiValue.
into_iter(s) == rev(s)

into_iter_ref(s) == rev(s)

\* Vec::pop
pop_front(s) ==
    IF Len(s) = 0 THEN [store |-> s, ret |-> None]
    ELSE [store |-> SubSeq(s, 1, Len(s) - 1), ret |-> Some(s[Len(s)])]

\* push_front that inserts at the head of the Vec, the logical back.
push_front_at_back(s, value) == <<value>> \o s

\* Vec::push
push_front(s, value) == Append(s, value)

clear(s) == <<>>

\* The Drain empties the Vec; Rev yields its elements from the back.
drain_all(s) == [store |-> <<>>, ret |-> rev(s)]

\* The for loop of refill: k productions are consumed so far.
RECURSIVE refill_loop(_, _, _)
refill_loop(store, it, k) ==
    IF k = Len(it) THEN [store |-> reverse(store), ret |-> Ok(Unit), consumed |-> k]
    ELSE IF IsErr(it[k + 1])
         THEN [store |-> store, ret |-> it[k + 1], consumed |-> k + 1]
         ELSE refill_loop(Append(store, it[k + 1][2]), it, k + 1)

\* refill that forgets to clear.
refill_no_clear(s, it) == refill_loop(s, it, 0)

refill(s, it) == refill_loop(clear(s), it, 0)

(* ----------------------- the MultiValue machine ----------------------- *)

Panicked == ret[1] = "Panic"

Usable == live /\ ~Panicked

Init ==
    /\ visited = {}
    /\ stack = <<>>
    /\ mv = new
    /\ live = TRUE
    /\ pre = <<>>
    /\ consumed = 0
    /\ out = <<>>
    /\ op = "new"
    /\ arg = <<>>
    /\ ret = Ok(Unit)

\* MultiValue::from_vec(L): a new container (the old one, if any, is dropped).
FromVec ==
    /\ ~Panicked
    /\ \E L \in SeqsUpTo(Elems, MaxLen) :
          /\ mv' = from_vec(L)
          /\ arg' = L
    /\ live' = TRUE
    /\ pre' = mv
    /\ op' = "from_vec"
    /\ ret' = Ok(Unit)
    /\ UNCHANGED <<visited, stack, consumed, out>>

\* into_vec(self): the container is moved out of.
IntoVec ==
    /\ Usable
    /\ ret' = Ok(into_vec(mv))
    /\ live' = FALSE
    /\ pre' = mv
    /\ op' = "into_vec"
    /\ arg' = <<>>
    /\ UNCHANGED <<visited, stack, mv, consumed, out>>

PushFront ==
    /\ Usable
    /\ Len(mv) < MaxLen
    /\ \E value \in Elems :
          /\ mv' = push_front(mv, value)
          /\ arg' = value
    /\ pre' = mv
    /\ op' = "push_front"
    /\ ret' = Ok(Unit)
    /\ UNCHANGED <<visited, stack, live, consumed, out>>

PopFront ==
    /\ Usable
    /\ mv' = pop_front(mv).store
    /\ ret' = pop_front(mv).ret
    /\ pre' = mv
    /\ op' = "pop_front"
    /\ arg' = <<>>
    /\ UNCHANGED <<visited, stack, live, consumed, out>>

Clear ==
    /\ Usable
    /\ mv' = clear(mv)
    /\ pre' = mv
    /\ op' = "clear"
    /\ arg' = <<>>
    /\ ret' = Ok(Unit)
    /\ UNCHANGED <<visited, stack, live, consumed, out>>

DrainAll ==
    /\ Usable
    /\ mv' = drain_all(mv).store
    /\ ret' = Ok(drain_all(mv).ret)
    /\ pre' = mv
    /\ op' = "drain_all"
    /\ arg' = <<>>
    /\ UNCHANGED <<visited, stack, live, consumed, out>>

Refill ==
    /\ Usable
    /\ \E it \in SeqsUpTo(Productions, MaxLen) :
          /\ mv' = refill(mv, it).store
          /\ ret' = refill(mv, it).ret
          /\ consumed' = refill(mv, it).consumed
          /\ arg' = it
    /\ pre' = mv
    /\ op' = "refill"
    /\ UNCHANGED <<visited, stack, live, out>>

\* mv.get(i)
Get ==
    /\ Usable
    /\ \E i \in 0..MaxLen :
          /\ ret' = get(mv, i)
          /\ arg' = i
    /\ pre' = mv
    /\ op' = "get"
    /\ UNCHANGED <<visited, stack, mv, live, consumed, out>>

\* mv[i]
Index ==
    /\ Usable
    /\ \E i \in 0..MaxLen :
          /\ ret' = index_op(mv, i)
          /\ arg' = i
    /\ pre' = mv
    /\ op' = "index"
    /\ UNCHANGED <<visited, stack, mv, live, consumed, out>>

Next ==
    \/ FromVec
    \/ IntoVec
    \/ PushFront
    \/ PopFront
    \/ Clear
    \/ DrainAll
    \/ Refill
    \/ Get
    \/ Index

Spec == Init /\ [][Next]_vars

(* ------------------- numbers: Integer and Number ---------------------- *)

IntMin == -Pow2(I64Bits - 1)

IntMax == Pow2(I64Bits - 1) - 1

Abs(i) == IF i < 0 THEN -i ELSE i

\* The binary exponent at which magnitude m fits the significand.
RECURSIVE Shift(_, _)
Shift(m, e) == IF m \div Pow2(e) < Pow2(MantBits) THEN e ELSE Shift(m, e + 1)

\* IEEE 754 round to nearest, ties to even, of a magnitude to the significand.
RoundNearestEven(m) ==
    LET e == Shift(m, 0)
        q == m \div Pow2(e)
        r == m % Pow2(e)
    IN  IF e = 0 THEN m
        ELSE IF 2 * r > Pow2(e) \/ (2 * r = Pow2(e) /\ q % 2 = 1)
             THEN (q + 1) * Pow2(e)
             ELSE q * Pow2(e)

\* `i as Number`: the payload of the nearest Number.
as_Number(i) ==
    <<"fin", (IF i < 0 THEN -1 ELSE 1) * RoundNearestEven(Abs(i)) * Den>>

\* A numerator the significand holds exactly.
Representable(n) == n = 0 \/ RoundNearestEven(Abs(n)) = Abs(n)

\* Position of a non-NaN Number payload on the extended real line.
Key(x) ==
    IF x[1] = "pinf" THEN Pow2(I64Bits) * Den
    ELSE IF x[1] = "ninf" THEN -(Pow2(I64Bits) * Den)
    ELSE x[2]

\* f64 `<`, `>` and `==`: false as soon as an operand is NaN.
f_lt(x, y) == x[1] # "nan" /\ y[1] # "nan" /\ Key(x) < Key(y)

f_gt(x, y) == x[1] # "nan" /\ y[1] # "nan" /\ Key(x) > Key(y)

\* A comparison of representations: NaN equals itself.
f_eq_bitwise(x, y) == x = y

f_eq(x, y) == x[1] # "nan" /\ y[1] # "nan" /\ Key(x) = Key(y)

(* --------------------------- the Values ------------------------------- *)

Integers == {Integer(i) : i \in IntMin..IntMax}

Numbers ==
    {Number("fin", n) : n \in {m \in (IntMin * Den)..(-IntMin * Den) : Representable(m)}}
        \cup {NaN, Number("pinf", 0), Number("ninf", 0)}

Strings == {LuaString(<<>>), LuaString(<<1>>), LuaString(<<1, 2>>), LuaString(<<2>>)}

\* Handles carry the address lua_topointer gives; a light userdata may hold
\* any address, that of an object included.
Handles ==
    {Table(1), Table(2), Function(4), Thread(5), UserData(6), UserData(7)}

Values ==
    {Nil, Boolean(FALSE), Boolean(TRUE), NULL, LightUserData(4), Error("e")}
        \cup Integers \cup Numbers \cup Strings \cup Handles

IsNumeric(v) == Tag(v) \in {"Integer", "Number"}

(* PartialEq of the handle types and of String. *)
handle_eq(a, b) == Payload(a) = Payload(b)

string_eq(a, b) == Payload(a) = Payload(b)

\* Table::equals and AnyUserData::equals: an __eq hook may answer anything or
\* fail; without one the answer is reference identity.
hook_equals(a, b) ==
    {Ok(handle_eq(a, b)), Ok(TRUE), Ok(FALSE), Err("error in __eq")}

\* The mixed arms left out: the pair falls to `_ => false`.
int_num_eq_never(i, x) == FALSE

\* `*a as Number == *b`
int_num_eq(i, x) == f_eq(as_Number(i), x)

\* impl PartialEq for Value
eq(a, b) ==
    LET ta == Tag(a)
        tb == Tag(b)
    IN  IF ta = "Nil" /\ tb = "Nil" THEN TRUE
        ELSE IF ta = "Boolean" /\ tb = "Boolean" THEN Payload(a) = Payload(b)
        ELSE IF ta = "LightUserData" /\ tb = "LightUserData" THEN Payload(a) = Payload(b)
        ELSE IF ta = "Integer" /\ tb = "Integer" THEN Payload(a) = Payload(b)
        ELSE IF ta = "Integer" /\ tb = "Number" THEN int_num_eq(Payload(a), Payload(b))
        ELSE IF ta = "Number" /\ tb = "Integer" THEN int_num_eq(Payload(b), Payload(a))
        ELSE IF ta = "Number" /\ tb = "Number" THEN f_eq(Payload(a), Payload(b))
        ELSE IF ta = "String" /\ tb = "String" THEN string_eq(a, b)
        ELSE IF ta = "Table" /\ tb = "Table" THEN handle_eq(a, b)
        ELSE IF ta = "Function" /\ tb = "Function" THEN handle_eq(a, b)
        ELSE IF ta = "Thread" /\ tb = "Thread" THEN handle_eq(a, b)
        ELSE IF ta = "UserData" /\ tb = "UserData" THEN handle_eq(a, b)
        ELSE FALSE

\* Value::equals: the set of results the call may return.
equals(a, b) ==
    IF Tag(a) = "Table" /\ Tag(b) = "Table" THEN hook_equals(a, b)
    ELSE IF Tag(a) = "UserData" /\ Tag(b) = "UserData" THEN hook_equals(a, b)
    ELSE {Ok(eq(a, b))}

\* The address of an interned string: one per byte sequence.
string_to_pointer(bytes) ==
    8 + Len(bytes) + (IF bytes = <<>> THEN 0 ELSE 2 * Head(bytes))

\* Value::to_pointer; 0 is the null pointer.
to_pointer(v) ==
    IF Tag(v) \in {"LightUserData", "Table", "Function", "Thread", "UserData"}
    THEN Payload(v)
    ELSE IF Tag(v) = "String" THEN string_to_pointer(Payload(v))
    ELSE 0

\* The null guard dropped.
is_null_always(p) == TRUE

\* ud.0.is_null()
is_null(p) == p = 0

\* Ord for integers, bools (false < true) and pointers.
int_cmp(x, y) == IF x < y THEN "Less" ELSE IF x > y THEN "Greater" ELSE "Equal"

bool_cmp(x, y) == int_cmp(IF x THEN 1 ELSE 0, IF y THEN 1 ELSE 0)

\* Ord for byte slices: lexicographic.
RECURSIVE bytes_cmp(_, _)
bytes_cmp(x, y) ==
    IF x = <<>> /\ y = <<>> THEN "Equal"
    ELSE IF x = <<>> THEN "Less"
    ELSE IF y = <<>> THEN "Greater"
    ELSE IF Head(x) < Head(y) THEN "Less"
    ELSE IF Head(x) > Head(y) THEN "Greater"
    ELSE bytes_cmp(Tail(x), Tail(y))

\* cmp_num with its two guards exchanged.
cmp_num_swapped(a, b) ==
    IF f_lt(a, b) THEN "Greater" ELSE IF f_gt(a, b) THEN "Less" ELSE "Equal"

\* fn cmp_num inside Value::cmp
cmp_num(a, b) ==
    IF f_lt(a, b) THEN "Less" ELSE IF f_gt(a, b) THEN "Greater" ELSE "Equal"

\* Value::cmp: the match arms in source order, the first that matches decides.
cmp(a, b) ==
    LET ta == Tag(a)
        tb == Tag(b)
    IN  IF ta = "Nil" /\ tb = "Nil" THEN "Equal"
        ELSE IF ta = "Nil" THEN "Less"
        ELSE IF tb = "Nil" THEN "Greater"
        ELSE IF ta = "LightUserData" /\ tb = "LightUserData" /\ Payload(a) = Payload(b)
             THEN "Equal"
        ELSE IF ta = "LightUserData" /\ is_null(Payload(a)) THEN "Less"
        ELSE IF tb = "LightUserData" /\ is_null(Payload(b)) THEN "Greater"
        ELSE IF ta = "Boolean" /\ tb = "Boolean" THEN bool_cmp(Payload(a), Payload(b))
        ELSE IF ta = "Boolean" THEN "Less"
        ELSE IF tb = "Boolean" THEN "Greater"
        ELSE IF ta = "Integer" /\ tb = "Integer" THEN int_cmp(Payload(a), Payload(b))
        ELSE IF ta = "Integer" /\ tb = "Number"
             THEN cmp_num(as_Number(Payload(a)), Payload(b))
        ELSE IF ta = "Number" /\ tb = "Integer"
             THEN cmp_num(Payload(a), as_Number(Payload(b)))
        ELSE IF ta = "Number" /\ tb = "Number" THEN cmp_num(Payload(a), Payload(b))
        ELSE IF IsNumeric(a) THEN "Less"
        ELSE IF IsNumeric(b) THEN "Greater"
        ELSE IF ta = "String" /\ tb = "String" THEN bytes_cmp(Payload(a), Payload(b))
        ELSE IF ta = "String" THEN "Less"
        ELSE IF tb = "String" THEN "Greater"
        ELSE int_cmp(to_pointer(a), to_pointer(b))

(* --------------- applying eq, equals and cmp to a pair ---------------- *)

Idle ==
    /\ visited = {}
    /\ stack = <<>>
    /\ mv = <<>>
    /\ live = FALSE
    /\ pre = <<>>
    /\ consumed = 0
    /\ out = <<>>

InitValue ==
    /\ Idle
    /\ arg \in Values \X Values
    /\ op = "init"
    /\ ret = Ok(Unit)

\* a == b
Eq ==
    /\ op' = "eq"
    /\ ret' = eq(arg[1], arg[2])
    /\ UNCHANGED <<visited, stack, mv, live, pre, consumed, out, arg>>

\* a.equals(b)
Equals ==
    /\ op' = "equals"
    /\ ret' \in equals(arg[1], arg[2])
    /\ UNCHANGED <<visited, stack, mv, live, pre, consumed, out, arg>>

\* a.cmp(&b)
Cmp ==
    /\ op' = "cmp"
    /\ ret' = cmp(arg[1], arg[2])
    /\ UNCHANGED <<visited, stack, mv, live, pre, consumed, out, arg>>

NextValue ==
    \/ Eq
    \/ Equals
    \/ Cmp

SpecValue == InitValue /\ [][NextValue]_vars

(* ----------------------- Serialize for Value -------------------------- *)

\* Value::type_name
type_name(v) ==
    IF Tag(v) = "Nil" THEN "nil"
    ELSE IF Tag(v) = "Boolean" THEN "boolean"
    ELSE IF Tag(v) = "LightUserData" THEN "lightuserdata"
    ELSE IF Tag(v) = "Integer" THEN "integer"
    ELSE IF Tag(v) = "Number" THEN "number"
    ELSE IF Tag(v) = "String" THEN "string"
    ELSE IF Tag(v) = "Table" THEN "table"
    ELSE IF Tag(v) = "Function" THEN "function"
    ELSE IF Tag(v) = "Thread" THEN "thread"
    ELSE IF Tag(v) = "UserData" THEN "userdata"
    ELSE "error"

\* The widths the Integer alias (crate::types::Integer) may have in a build,
\* relative to the serializer's i64: narrower, the same, wider.
IntegerWidths == {I64Bits - 1, I64Bits, I64Bits + 1}

IntegersOfWidth(w) == {Integer(i) : i \in (-Pow2(w - 1))..(Pow2(w - 1) - 1)}

FitsI64(i) == IntMin <= i /\ i <= IntMax

\* An `as i64` in place of the checked conversion: wraps modulo 2^64.
try_into_i64_wrapping(i) == Ok(((i - IntMin) % Pow2(I64Bits)) + IntMin)

\* (*i).try_into() to i64
try_into_i64(i) == IF FitsI64(i) THEN Ok(i) ELSE Err("TryFromIntError")

\* Result::expect
expect(r, msg) == IF IsErr(r) THEN Panic(msg) ELSE r

\* What a call on the serializer S may return.
SerializerResults == {Ok("S::Ok"), Err("S::Error")}

\* One call on the serializer: it is recorded, its result is returned.
Emit(call) == {[out |-> <<call>>, ret |-> r] : r \in SerializerResults}

\* String, Table and AnyUserData serialize themselves.
delegate(v) == Emit(<<"serialize:" \o type_name(v), Payload(v)>>)

\* impl Serialize for Value: the calls made on the serializer and the result.
serialize(v) ==
    IF Tag(v) = "Nil" THEN Emit(<<"serialize_unit">>)
    ELSE IF Tag(v) = "Boolean" THEN Emit(<<"serialize_bool", Payload(v)>>)
    ELSE IF Tag(v) = "Integer"
         THEN LET c == expect(try_into_i64(Payload(v)), "cannot convert Lua Integer to i64")
              IN  IF c[1] = "Panic" THEN {[out |-> <<>>, ret |-> c]}
                  ELSE Emit(<<"serialize_i64", c[2]>>)
    ELSE IF Tag(v) = "Number" THEN Emit(<<"serialize_f64", Payload(v)>>)
    ELSE IF Tag(v) \in {"String", "Table", "UserData"} THEN delegate(v)
    ELSE IF Tag(v) = "LightUserData" /\ is_null(Payload(v)) THEN Emit(<<"serialize_none">>)
    ELSE {[out |-> <<>>,
           ret |-> Err("cannot serialize <" \o type_name(v) \o ">")]}

InitSer ==
    /\ Idle
    /\ \E w \in IntegerWidths :
          arg \in ((Values \ Integers) \cup IntegersOfWidth(w)) \X {w}
    /\ op = "init"
    /\ ret = Ok(Unit)

\* value.serialize(serializer) with a fresh serializer
Serialize ==
    /\ op = "init"
    /\ \E r \in serialize(arg[1]) :
          /\ out' = r.out
          /\ ret' = r.ret
    /\ op' = "serialize"
    /\ UNCHANGED <<visited, stack, mv, live, pre, consumed, arg>>

NextSer == Serialize

SpecSer == InitSer /\ [][NextSer]_vars

(* ------------------- decoding a call's arguments ---------------------- *)

\* Error::BadArgument { to, pos, name, cause }
BadArgument(to, pos, name, cause) == <<"BadArgument", to, pos, name, cause>>

\* The errors a conversion may fail with.
ConvErrors ==
    {<<"FromLuaConversionError">>,
     BadArgument(None, 1, None, <<"RuntimeError">>)}

\* What the implementor's from_lua / from_lua_multi returns for the input.
ConvResults == {Ok("T1"), Ok("T2")} \cup {Err(e) : e \in ConvErrors}

\* The names of the receiving function.
Names == {None, Some("f")}

\* from_lua_arg without its map_err.
from_lua_arg_unwrapped(r, i, to) == r

\* FromLua::from_lua_arg, r being Self::from_lua(value, lua): map_err wraps.
from_lua_arg(r, i, to) ==
    IF IsErr(r) THEN Err(BadArgument(to, i, None, r[2])) ELSE r

\* FromLuaMulti::from_lua_multi_args (the provided method), r being
\* Self::from_lua_multi(values, lua): i and to are dropped.
from_lua_multi_args(r, i, to) == r

InitArg ==
    /\ Idle
    /\ arg \in [value : Elems,
                values : SeqsUpTo(Elems, 1),
                i : 1..MaxPos,
                to : Names,
                from_lua : ConvResults,
                from_lua_multi : ConvResults]
    /\ op = "init"
    /\ ret = Ok(Unit)

FromLuaArg ==
    /\ op' = "from_lua_arg"
    /\ ret' = from_lua_arg(arg.from_lua, arg.i, arg.to)
    /\ UNCHANGED <<visited, stack, mv, live, pre, consumed, out, arg>>

FromLuaMultiArgs ==
    /\ op' = "from_lua_multi_args"
    /\ ret' = from_lua_multi_args(arg.from_lua_multi, arg.i, arg.to)
    /\ UNCHANGED <<visited, stack, mv, live, pre, consumed, out, arg>>

NextArg ==
    \/ FromLuaArg
    \/ FromLuaMultiArgs

SpecArg == InitArg /\ [][NextArg]_vars

(* ------------------------- pretty printing ---------------------------- *)

\* The tables of the heap, by address, and what their entries may hold.
TablePtrs == {1, 2}

EntryValues == {Function(4), Thread(5)} \cup {Table(p) : p \in TablePtrs}

\* A heap: the values of each table, in the order of their sorted keys 1..n.
Heaps == [TablePtrs -> SeqsUpTo(EntryValues, MaxEntries)]

\* The guard of the Table arm with the visited test left out.
should_expand_ignoring_visited(recursive, seen, p) == recursive

\* `recursive && !visited.contains(&t.to_pointer())`
should_expand(recursive, seen, p) == recursive /\ p \notin seen

\* Value::fmt_pretty: the text written, or the table to descend into.
fmt_pretty(v, recursive, seen) ==
    IF Tag(v) = "Nil" THEN [kind |-> "flat", tok |-> <<"nil", 0>>]
    ELSE IF Tag(v) = "Boolean"
         THEN [kind |-> "flat", tok |-> <<"boolean", IF Payload(v) THEN 1 ELSE 0>>]
    ELSE IF Tag(v) = "LightUserData" /\ is_null(Payload(v))
         THEN [kind |-> "flat", tok |-> <<"null", 0>>]
    ELSE IF Tag(v) = "LightUserData"
         THEN [kind |-> "flat", tok |-> <<"lightuserdata:", Payload(v)>>]
    ELSE IF Tag(v) = "Integer" THEN [kind |-> "flat", tok |-> <<"integer", Payload(v)>>]
    ELSE IF Tag(v) = "Number" THEN [kind |-> "flat", tok |-> <<"number", Key(Payload(v))>>]
    ELSE IF Tag(v) = "String"
         THEN [kind |-> "flat", tok |-> <<"string", string_to_pointer(Payload(v))>>]
    ELSE IF Tag(v) = "Table" /\ should_expand(recursive, seen, to_pointer(v))
         THEN [kind |-> "table", p |-> to_pointer(v)]
    ELSE IF Tag(v) = "Table" THEN [kind |-> "flat", tok |-> <<"table:", to_pointer(v)>>]
    ELSE IF Tag(v) = "Function"
         THEN [kind |-> "flat", tok |-> <<"function:", to_pointer(v)>>]
    ELSE IF Tag(v) = "Thread" THEN [kind |-> "flat", tok |-> <<"thread:", to_pointer(v)>>]
    ELSE IF Tag(v) = "UserData"
         THEN [kind |-> "flat", tok |-> <<"userdata:", to_pointer(v)>>]
    ELSE IF recursive THEN [kind |-> "flat", tok |-> <<"error debug", 0>>]
    ELSE [kind |-> "flat", tok |-> <<"error", 0>>]

\* Table::fmt_pretty on entry: the table is marked visited, an empty one is
\* written "{}", any other is opened and its entries are walked from the first.
table_fmt_pretty(p, heap, st) ==
    IF heap[p] = <<>>
    THEN [out |-> Append(st.out, <<"{}", p>>),
          visited |-> st.visited \cup {p},
          stack |-> st.stack]
    ELSE [out |-> Append(st.out, <<"{", p>>),
          visited |-> st.visited \cup {p},
          stack |-> Append(st.stack, [t |-> p, k |-> 1])]

\* One call of Value::fmt_pretty in printer state st.
write_value(v, recursive, heap, st) ==
    LET r == fmt_pretty(v, recursive, st.visited) IN
    IF r.kind = "flat" THEN [st EXCEPT !.out = Append(@, r.tok)]
    ELSE table_fmt_pretty(r.p, heap, st)

\* Table::fmt_pretty, one turn of its loop in the innermost open table: the
\* key is written flat, the value with recursive = true; past the last entry
\* the table is closed and the call returns.
table_loop(heap, st) ==
    LET top == st.stack[Len(st.stack)]
        rest == SubSeq(st.stack, 1, Len(st.stack) - 1)
    IN  IF top.k > Len(heap[top.t])
        THEN [st EXCEPT !.out = Append(@, <<"}", top.t>>), !.stack = rest]
        ELSE write_value(heap[top.t][top.k], TRUE, heap,
                 write_value(Integer(top.k), FALSE, heap,
                     [st EXCEPT !.stack = Append(rest, [top EXCEPT !.k = @ + 1])]))

PrinterState == [out |-> out, visited |-> visited, stack |-> stack]

InitFmt ==
    /\ Idle
    /\ arg \in [heap : Heaps,
                root : {Table(p) : p \in TablePtrs} \cup {Function(4)},
                recursive : BOOLEAN]
    /\ op = "init"
    /\ ret = Ok(Unit)

\* impl Debug for Value, alternate form: fmt_pretty(fmt, true, 0, &mut
\* HashSet::new()); fmt_pretty itself also takes recursive = false.
FmtStart ==
    /\ op = "init"
    /\ LET st == write_value(arg.root, arg.recursive, arg.heap, PrinterState) IN
          /\ out' = st.out
          /\ visited' = st.visited
          /\ stack' = st.stack
    /\ op' = "fmt"
    /\ UNCHANGED <<mv, live, pre, consumed, arg, ret>>

FmtLoop ==
    /\ op = "fmt"
    /\ stack # <<>>
    /\ LET st == table_loop(arg.heap, PrinterState) IN
          /\ out' = st.out
          /\ visited' = st.visited
          /\ stack' = st.stack
    /\ UNCHANGED <<mv, live, pre, consumed, arg, ret, op>>

\* The outermost call returns.
FmtReturn ==
    /\ op = "fmt"
    /\ stack = <<>>
    /\ op' = "done"
    /\ UNCHANGED <<visited, stack, mv, live, pre, consumed, out, arg, ret>>

NextFmt ==
    \/ FmtStart
    \/ FmtLoop
    \/ FmtReturn

SpecFmt == InitFmt /\ [][NextFmt]_vars

(* ------------------------ claims on MultiValue ------------------------ *)

\* The logical front-to-back sequence of a storage Vec: its mirror image.
RECURSIVE Logical(_)
Logical(s) == IF s = <<>> THEN <<>> ELSE Logical(Tail(s)) \o <<Head(s)>>

Count(x, s) == Cardinality({k \in 1..Len(s) : s[k] = x})

\* C1: for every list L, from_vec(L).into_vec() = L, and mv[i] and get(i) of
\* mv = from_vec(L) are L[i] for every 0 <= i < len(L).
C1_FromVecRoundTrip ==
    op = "from_vec" =>
        /\ into_vec(mv) = arg
        /\ \A i \in 0..(Len(arg) - 1) :
              /\ index_op(mv, i) = Ok(arg[i + 1])
              /\ get(mv, i) = Some(arg[i + 1])

C1_Witness ==
    /\ op = "from_vec"
    /\ Len(arg) = MaxLen
    /\ arg[1] # arg[2]
    /\ pre # <<>>

\* C2: after any sequence of operations every read view (iter, both
\* IntoIterators, into_vec) yields the mirror image of the storage, len is its
\* length, get(i) is its i-th element exactly when i < len and None otherwise,
\* and indexing at i >= len panics; the calls made return what the views show.
C2_ViewsAgree ==
    LET L == Logical(mv) IN
    /\ iter(mv) = L
    /\ into_iter(mv) = L
    /\ into_iter_ref(mv) = L
    /\ into_vec(mv) = L
    /\ len(mv) = Len(L)
    /\ \A i \in 0..(MaxLen + 1) :
          IF i < len(mv)
          THEN get(mv, i) = Some(L[i + 1]) /\ index_op(mv, i) = Ok(L[i + 1])
          ELSE get(mv, i) = None /\ index_op(mv, i)[1] = "Panic"
    /\ (op = "get" => ret = (IF arg < Len(L) THEN Some(L[arg + 1]) ELSE None))
    /\ (op = "index" => IF arg < Len(L) THEN ret = Ok(L[arg + 1]) ELSE Panicked)
    /\ (op = "into_vec" => ret = Ok(L))
    /\ (op = "drain_all" => ret = Ok(Logical(pre)))

C2_Witness ==
    /\ op = "get"
    /\ Len(mv) = MaxLen
    /\ arg = MaxLen - 1
    /\ ret = Some(mv[1])
    /\ mv[1] # mv[MaxLen]

\* C3: push_front(v) puts v at logical index 0 and moves every element one
\* back; pop_front removes and returns logical index 0, or returns None on an
\* empty container, which stays empty.  So push a, push b, pop, pop yields b
\* then a, and push_front of a, b, c onto new() gives into_vec() = [c, b, a].
C3_FrontIsLifo ==
    /\ op = "push_front" =>
          /\ get(mv, 0) = Some(arg)
          /\ len(mv) = len(pre) + 1
          /\ \A i \in 0..(len(pre) - 1) : get(mv, i + 1) = get(pre, i)
    /\ op = "pop_front" =>
          IF is_empty(pre)
          THEN ret = None /\ is_empty(mv)
          ELSE /\ ret = get(pre, 0)
               /\ len(mv) = len(pre) - 1
               /\ \A i \in 0..(len(mv) - 1) : get(mv, i) = get(pre, i + 1)
    /\ \A a \in Elems, b \in Elems :
          LET s2 == push_front(push_front(mv, a), b) IN
          /\ pop_front(s2).ret = Some(b)
          /\ pop_front(pop_front(s2).store).ret = Some(a)
          /\ pop_front(pop_front(s2).store).store = mv
    /\ \A a \in Elems, b \in Elems, c \in Elems :
          into_vec(push_front(push_front(push_front(new, a), b), c)) = <<c, b, a>>

C3_Witness ==
    /\ op = "pop_front"
    /\ Len(pre) = MaxLen
    /\ ret = Some(pre[MaxLen])
    /\ pre[MaxLen] # pre[MaxLen - 1]

\* Position of the first failing production of it, 0 when all succeed.
FirstErr(it) ==
    IF \E k \in 1..Len(it) : IsErr(it[k])
    THEN CHOOSE k \in 1..Len(it) : IsErr(it[k]) /\ \A j \in 1..(k - 1) : ~IsErr(it[j])
    ELSE 0

\* C4: whatever the container held, refill returns Ok when every production
\* succeeds and the logical contents are then the produced values in production
\* order; at the first failing production it returns that error, consumes no
\* later production, and the container holds none of its previous contents,
\* only values produced before the failure.
C4_Refill ==
    op = "refill" =>
        LET f == FirstErr(arg) IN
        IF f = 0
        THEN /\ ret = Ok(Unit)
             /\ consumed = Len(arg)
             /\ into_vec(mv) = [k \in 1..Len(arg) |-> arg[k][2]]
        ELSE /\ ret = arg[f]
             /\ consumed = f
             /\ \A x \in Elems :
                   Count(x, mv) <= Count(Ok(x), SubSeq(arg, 1, f - 1))

C4_Witness ==
    /\ op = "refill"
    /\ pre # <<>>
    /\ IsErr(ret)
    /\ consumed < Len(arg)
    /\ mv # <<>>
    /\ \E k \in 1..Len(pre) : Count(pre[k], mv) = 0

(* --------------------- claims on eq, equals, cmp ---------------------- *)

\* The exact rational a numeric Value denotes, as a numerator over Den
\* (the infinities at the ends); NaN denotes none.
IsNaN(v) == Tag(v) = "Number" /\ Payload(v)[1] = "nan"

MathKey(v) == IF Tag(v) = "Integer" THEN Payload(v) * Den ELSE Key(Payload(v))

SameMath(a, b) == ~IsNaN(a) /\ ~IsNaN(b) /\ MathKey(a) = MathKey(b)

MixedNumeric(a, b) == {Tag(a), Tag(b)} = {"Integer", "Number"}

HookPair(a, b) == Tag(a) = Tag(b) /\ Tag(a) \in {"Table", "UserData"}

\* C5: raw equality (== and equals outside Table/UserData pairs) never holds
\* between Values of different variants, except between an Integer and a
\* Number that denote the same mathematical value, where it does hold; so a
\* String never equals a number and NULL never equals Nil.
C5_RawEquality ==
    LET a == arg[1]
        b == arg[2]
    IN  (op \in {"eq", "equals"} /\ Tag(a) # Tag(b)) =>
            /\ op = "equals" => ret[1] = "Ok"
            /\ (IF op = "eq" THEN ret ELSE ret[2])
                  = (MixedNumeric(a, b) /\ SameMath(a, b))

Primitive(v) == Tag(v) \in {"Nil", "Boolean", "LightUserData", "Integer", "Number"}

\* C6 as stated: v.equals(v) is Ok(true) for every primitive v.
C6_ReflexiveOnPrimitives ==
    (op = "equals" /\ arg[1] = arg[2] /\ Primitive(arg[1])) => ret = Ok(TRUE)

\* C6 amended: v.equals(v) is Ok(true) for every primitive v other than a
\* Number holding NaN, for which it is Ok(false).
C6_ReflexiveExceptNaN ==
    (op = "equals" /\ arg[1] = arg[2] /\ Primitive(arg[1])) =>
        ret = Ok(~IsNaN(arg[1]))

C6_Witness ==
    /\ op = "equals"
    /\ arg[1] = arg[2]
    /\ arg[1] = Number("fin", 3 * Den)
    /\ ret = Ok(TRUE)

\* The categories of the display ordering, lowest first.
Category(v) ==
    IF Tag(v) = "Nil" THEN 0
    ELSE IF v = NULL THEN 1
    ELSE IF Tag(v) = "Boolean" THEN 2
    ELSE IF IsNumeric(v) THEN 3
    ELSE IF Tag(v) = "String" THEN 4
    ELSE 5

Reversed(o) == IF o = "Less" THEN "Greater" ELSE IF o = "Greater" THEN "Less" ELSE "Equal"

\* x sorts strictly before y in lexicographic byte order.
LexLess(x, y) ==
    \E k \in 0..Len(x) :
        /\ k <= Len(y)
        /\ \A j \in 1..k : x[j] = y[j]
        /\ \/ (k = Len(x) /\ k < Len(y))
           \/ (k < Len(x) /\ k < Len(y) /\ x[k + 1] < y[k + 1])

Le(x, y) == cmp(x, y) # "Greater"

Lt(x, y) == cmp(x, y) = "Less"

\* A value whose numeric comparison involves no rounding and no NaN.
Exact(v) ==
    /\ ~IsNaN(v)
    /\ Tag(v) = "Integer" => Representable(Payload(v))

\* What cmp(a, b) = r owes to the category precedence, and the order inside
\* the Boolean, String and pointer categories.
Precedence(a, b, r) ==
    /\ Category(a) < Category(b) => r = "Less"
    /\ Category(a) > Category(b) => r = "Greater"
    /\ (Tag(a) = "Boolean" /\ Tag(b) = "Boolean") =>
          r = (IF Payload(a) = Payload(b) THEN "Equal"
               ELSE IF Payload(b) THEN "Less" ELSE "Greater")
    /\ (Tag(a) = "String" /\ Tag(b) = "String") =>
          r = (IF LexLess(Payload(a), Payload(b)) THEN "Less"
               ELSE IF LexLess(Payload(b), Payload(a)) THEN "Greater" ELSE "Equal")
    /\ (Category(a) = 5 /\ Category(b) = 5) =>
          r = int_cmp(to_pointer(a), to_pointer(b))
    /\ (a = Integer(2) /\ b = Number("fin", 3 * Den)) => r = "Less"

\* C7 as stated: cmp is a total ordering consistent with the precedence Nil <
\* NULL < Boolean < numeric (compared numerically) < String (bytes) < the rest
\* (pointers): categories alone decide across categories, cmp(a, b) is the
\* reverse of cmp(b, a), and the ordering is transitive.
C7_TotalOrder ==
    op = "cmp" =>
        LET a == arg[1]
            b == arg[2]
        IN  /\ Precedence(a, b, ret)
            /\ (IsNumeric(a) /\ IsNumeric(b) /\ ~IsNaN(a) /\ ~IsNaN(b)) =>
                  ret = int_cmp(MathKey(a), MathKey(b))
            /\ cmp(b, a) = Reversed(ret)
            /\ \A c \in Values : (Le(a, b) /\ Le(b, c)) => Le(a, c)

\* C7 amended: cmp follows the category precedence, cmp(a, b) is the reverse
\* of cmp(b, a), and Less is transitive, on all Values; inside the numeric
\* category NaN compares Equal to every number and an Integer meets a Number
\* only after `as Number` rounds it, so cmp agrees with the numeric order, and
\* Less-or-Equal is transitive, only among Values free of NaN and of Integers
\* that the rounding changes.
C7_DisplayOrder ==
    op = "cmp" =>
        LET a == arg[1]
            b == arg[2]
        IN  /\ Precedence(a, b, ret)
            /\ (IsNumeric(a) /\ IsNumeric(b) /\ Exact(a) /\ Exact(b)) =>
                  ret = int_cmp(MathKey(a), MathKey(b))
            /\ (IsNumeric(a) /\ IsNumeric(b) /\ (IsNaN(a) \/ IsNaN(b))) => ret = "Equal"
            /\ cmp(b, a) = Reversed(ret)
            /\ \A c \in Values :
                  /\ (Lt(a, b) /\ Lt(b, c)) => Lt(a, c)
                  /\ (Exact(a) /\ Exact(b) /\ Exact(c) /\ Le(a, b) /\ Le(b, c)) => Le(a, c)

C7_Witness ==
    /\ op = "cmp"
    /\ arg[1] = Integer(2)
    /\ arg[2] = Number("fin", 3 * Den)
    /\ ret = "Less"

(* ----------------------- claims on Serialize -------------------------- *)

Unserializable(v) ==
    \/ Tag(v) \in {"Error", "Function", "Thread"}
    \/ (Tag(v) = "LightUserData" /\ v # NULL)

\* C8: serializing an Error, a non-null LightUserData, a Function or a Thread
\* returns the error "cannot serialize <type_name>" and calls nothing on the
\* serializer; Nil goes to serialize_unit and NULL to serialize_none.
C8_Unserializable ==
    op = "serialize" =>
        LET v == arg[1] IN
        /\ Unserializable(v) =>
              /\ out = <<>>
              /\ ret \in {Err("cannot serialize <error>"),
                          Err("cannot serialize <lightuserdata>"),
                          Err("cannot serialize <function>"),
                          Err("cannot serialize <thread>")}
              /\ (Tag(v) = "Error") = (ret = Err("cannot serialize <error>"))
              /\ (Tag(v) = "Function") = (ret = Err("cannot serialize <function>"))
              /\ (Tag(v) = "Thread") = (ret = Err("cannot serialize <thread>"))
        /\ v = Nil => (out = <<<<"serialize_unit">>>> /\ ret \in SerializerResults)
        /\ v = NULL => (out = <<<<"serialize_none">>>> /\ ret \in SerializerResults)

C8_Witness ==
    /\ op = "serialize"
    /\ arg[1] = LightUserData(4)
    /\ ret = Err("cannot serialize <lightuserdata>")
    /\ out = <<>>

\* C9 as stated: serializing an Integer that does not fit i64 returns an
\* error: it neither truncates the value nor panics.
C9_OverflowIsReturned ==
    (op = "serialize" /\ Tag(arg[1]) = "Integer" /\ ~FitsI64(Payload(arg[1]))) =>
        (IsErr(ret) /\ out = <<>>)

\* C9 amended: an Integer that fits i64 reaches serialize_i64 unchanged; one
\* that does not fit is never truncated and never a returned error: the
\* conversion's expect panics before anything reaches the serializer.
C9_OverflowPanics ==
    (op = "serialize" /\ Tag(arg[1]) = "Integer") =>
        IF FitsI64(Payload(arg[1]))
        THEN out = <<<<"serialize_i64", Payload(arg[1])>>>> /\ ret \in SerializerResults
        ELSE out = <<>> /\ ret = Panic("cannot convert Lua Integer to i64")

C9_Witness ==
    /\ op = "serialize"
    /\ arg[1] = Integer(IntMax + 1)
    /\ Panicked
    /\ out = <<>>

(* ------------------- claims on argument decoding ---------------------- *)

\* A failure of plain wrapped for position i and function name to.
WrappedFor(r, plain, i, to) ==
    /\ IsErr(r)
    /\ r[2][1] = "BadArgument"
    /\ r[2][2] = to
    /\ r[2][3] = i
    /\ r[2][5] = plain[2]

\* C10 as stated: from_lua_arg and from_lua_multi_args return a success of
\* the plain conversion unchanged and return every failure as a BadArgument
\* carrying the position i, the name to and the original error as cause.
C10_FailuresAreWrapped ==
    /\ op = "from_lua_arg" =>
          IF IsErr(arg.from_lua)
          THEN WrappedFor(ret, arg.from_lua, arg.i, arg.to)
          ELSE ret = arg.from_lua
    /\ op = "from_lua_multi_args" =>
          IF IsErr(arg.from_lua_multi)
          THEN WrappedFor(ret, arg.from_lua_multi, arg.i, arg.to)
          ELSE ret = arg.from_lua_multi

\* C10 amended: from_lua_arg does so; the provided from_lua_multi_args returns
\* the result of from_lua_multi as it is, a failure included: position and name
\* are dropped and nothing is wrapped.
C10_OnlyFromLuaArgWraps ==
    /\ op = "from_lua_arg" =>
          IF IsErr(arg.from_lua)
          THEN WrappedFor(ret, arg.from_lua, arg.i, arg.to) /\ ret[2][4] = None
          ELSE ret = arg.from_lua
    /\ op = "from_lua_multi_args" => ret = arg.from_lua_multi

C10_Witness ==
    /\ op = "from_lua_arg"
    /\ arg.i = MaxPos
    /\ arg.to = Some("f")
    /\ arg.from_lua = Err(<<"FromLuaConversionError">>)
    /\ ret = Err(BadArgument(Some("f"), MaxPos, None, <<"FromLuaConversionError">>))

(* --------------------- claims on pretty printing ---------------------- *)

Occurrences(tok) == {k \in 1..Len(out) : out[k] = tok}

Opened(p) == Occurrences(<<"{", p>>) \cup Occurrences(<<"{}", p>>)

RECURSIVE SumOver(_, _)
SumOver(f, S) ==
    IF S = {} THEN 0
    ELSE LET x == CHOOSE y \in S : TRUE IN f[x] + SumOver(f, S \ {x})

\* The work left: tables never entered, entries left in the open tables, and
\* the return of the outermost call.
\* How often value v is held by the tables entered so far, the root included.
Held(v) ==
    SumOver([p \in TablePtrs |->
                Cardinality({k \in 1..Len(arg.heap[p]) : arg.heap[p][k] = v})],
            visited)
    + (IF arg.root = v THEN 1 ELSE 0)

Measure ==
    (Cardinality(TablePtrs \ visited) * (MaxEntries + 1))
    + SumOver([k \in 1..Len(stack) |-> Len(arg.heap[stack[k].t]) - stack[k].k + 2],
              1..Len(stack))
    + (IF op = "init" THEN 2 ELSE IF op = "fmt" THEN 1 ELSE 0)

\* In every state of a printing: a table is entered at most once, exactly the
\* visited tables were entered, a flat "table: p" under recursive = true names
\* a table entered before, the open tables are distinct and visited, and the
\* printing is done or can go on.
PrinterInv ==
    /\ \A p \in TablePtrs :
          /\ Cardinality(Opened(p)) <= 1
          /\ (p \in visited) = (Opened(p) # {})
          /\ arg.recursive =>
                \A k \in Occurrences(<<"table:", p>>) : \E j \in Opened(p) : j < k
    /\ ~arg.recursive => visited = {}
    /\ \A j \in 1..Len(stack), k \in 1..Len(stack) :
          /\ stack[j].t \in visited
          /\ (j # k) => stack[j].t # stack[k].t
    /\ (op = "done") =>
          /\ stack = <<>>
          /\ Cardinality(Occurrences(<<"function:", 4>>)) = Held(Function(4))
          /\ Cardinality(Occurrences(<<"thread:", 5>>)) = Held(Thread(5))
          /\ \A p \in TablePtrs :
                Cardinality(Occurrences(<<"table:", p>>)) + Cardinality(Opened(p))
                    = Held(Table(p))
          /\ \A p \in TablePtrs :
                Cardinality(Occurrences(<<"{", p>>)) = Cardinality(Occurrences(<<"}", p>>))
    /\ (op # "done") => ENABLED NextFmt

\* C11: pretty-printing any finite table graph from an empty visited set
\* terminates, self-containing tables and longer cycles included: every step
\* uses up work that is bounded by the graph, a Table is expanded only while
\* its address is not in the visited set, every later encounter is written as
\* the flat "table: <ptr>", and Function and Thread are always written flat.
C11_PrettyTerminates ==
    /\ []PrinterInv
    /\ [][Measure' < Measure /\ Measure' >= 0]_vars

C11_Witness ==
    /\ op = "done"
    /\ arg.recursive
    /\ arg.root = Table(1)
    /\ \E k \in 1..Len(arg.heap[1]) : arg.heap[1][k] = Table(2)
    /\ \E k \in 1..Len(arg.heap[2]) : arg.heap[2][k] = Table(1)
    /\ \E k \in 1..Len(arg.heap[2]) : arg.heap[2][k] = Table(2)
    /\ Occurrences(<<"table:", 1>>) # {}
    /\ Occurrences(<<"table:", 2>>) # {}
    /\ Occurrences(<<"function:", 4>>) # {}

====
